---- MODULE Spec2Model ----
(***************************************************************************)
(* Model of src/net/ws_server.cc: the WebSocket server core (WSServer),    *)
(* instantiated for the plain transport (template class                   *)
(* WSServer<TCPSocket>).                                                   *)
(*                                                                         *)
(* The server state is the connection table connections_, the closed set  *)
(* closed_connections_, the identifier counter last_connection_id_ and    *)
(* the listener flag active_.  The readiness poller (poller_) lives in     *)
(* another file of the repository; its registrations and its dispatch     *)
(* pass are modelled from the design document (section 4.5): predicates   *)
(* are evaluated once before the wait, every ready action is invoked, and *)
(* CancelAll removes a handle's actions at the end of the dispatch pass.   *)
(*                                                                         *)
(* Byte strings are sequences of tokens.  The handlers are operators on a *)
(* record s = [connections_, closed_connections_, upcalls, core_close,    *)
(* wire, result] so that they compose sequentially as in the source;      *)
(* upcalls is the sequence of application callbacks and exception reports *)
(* made by the handler,                                                    *)
(* core_close the identifiers to which close_connection / the Close echo  *)
(* appended a Close frame.                                                 *)
(*                                                                         *)
(* Spec is the whole server.  These restrictions and harnesses of it are   *)
(* explored exhaustively: SpecOne (one client, every input, every          *)
(* application call), SpecAdmission (several clients that handshake, close *)
(* or hang up), SpecClose (one client whose transport keeps accepting,     *)
(* with fairness), SpecWrite and SpecClear (queue_frame, write() and       *)
(* clear_buffer on one connection, with its byte stream recorded),         *)
(* SpecCalls (queue_frame on a full table of connections in any state) and *)
(* SpecHandshake (the handshake functions on a set of requests).           *)
(***************************************************************************)
EXTENDS Integers, Sequences, FiniteSets, TLC

\* ------------------------------------------------------------------ bounds
\* population cap; 60 in the source (ws_server.cc:19), scaled down
MAX_CONNECTION_NUM == 2
\* connections accepted over a whole run
MaxAccepts == 3
\* buffers the application and Ping replies may pile up in a send_buffer
MaxSendBuffer == 2
\* completed messages in the message parsers, all connections together
MaxParserQueue == 2
\* queue_frame calls made on the transport under test
MaxFrames == 3

\* ------------------------------------------------------------------ values
NotConnected == "NotConnected"
Connecting == "Connecting"
Connected == "Connected"
Closing == "Closing"
Closed == "Closed"

State == {NotConnected, Connecting, Connected, Closing, Closed}

Continue == "Continue"
CancelAll == "CancelAll"

In == "In"
Out == "Out"

ConnIds == 0 .. (MaxAccepts - 1)

Min(a, b) == IF a < b THEN a ELSE b

\* WSMessage: type and payload
WSMessage(type, payload) == [type |-> type, payload |-> payload]

\* WSFrame { fin, opcode, payload }
WSFrame(fin, opcode, payload) == [fin |-> fin, opcode |-> opcode, payload |-> payload]

\* frame.to_string(): the header (carrying the opcode) then the payload
to_string(frame) == << frame.opcode, frame.payload >>

\* messages a peer can complete
PeerMessages ==
  { WSMessage("Text", "p"), WSMessage("Binary", "p"), WSMessage("Close", "p"),
    WSMessage("Ping", "p"), WSMessage("Pong", "p") }

\* frames the application queues
AppFrames == { WSFrame(TRUE, "Text", "a") }


\* ------------------------------------------------------- handshake (pure)
\* HTTPRequest: the request line as a string of characters (the target and
\* the protocol token are single tokens) and the headers present
HTTPRequest(first_line, headers) == [first_line |-> first_line, headers |-> headers]

has_header(request, name) == name \in DOMAIN request.headers

get_header_value(request, name) == request.headers[name]

\* string::substr(pos, n) and string::substr(pos), pos 0-based
substr(str, pos, n) == SubSeq(str, pos + 1, Min(pos + n, Len(str)))

substr_from(str, pos) == SubSeq(str, pos + 1, Len(str))

\* string::rfind(" "): 0-based position of the last space, -1 for npos
rfind_space(str) ==
  IF \E i \in 1 .. Len(str) : str[i] = " "
  THEN (CHOOSE i \in 1 .. Len(str) :
          str[i] = " " /\ \A j \in (i + 1) .. Len(str) : str[j] # " ") - 1
  ELSE -1

\* string::find(token) != npos on a header value given as its tokens
contains(value, token) == \E i \in 1 .. Len(value) : value[i] = token

is_valid_handshake_request(request) ==
  LET first_line == request.first_line
      last_space == rfind_space(first_line)
  IN  IF substr(first_line, 0, 3) # << "G", "E", "T" >> THEN FALSE
      ELSE IF last_space = -1 THEN FALSE
      ELSE IF substr_from(first_line, last_space + 1) # << "HTTP/1.1" >>
              /\ substr_from(first_line, last_space + 1) # << "HTTP/2" >> THEN FALSE
      ELSE IF ~ has_header(request, "Connection")
              \/ ~ contains(get_header_value(request, "Connection"), "Upgrade") THEN FALSE
      ELSE IF ~ has_header(request, "Upgrade")
              \/ get_header_value(request, "Upgrade") # << "websocket" >> THEN FALSE
      ELSE IF ~ has_header(request, "Sec-WebSocket-Key") THEN FALSE
      ELSE TRUE

\* HTTPResponse: the status line as its three tokens and the header block
HTTPResponse(first_line, headers) == [first_line |-> first_line, headers |-> headers]

create_handshake_response(request) ==
  IF ~ is_valid_handshake_request(request)
  THEN HTTPResponse(<< "HTTP/1.1", "400", "Bad Request" >>,
                    << "Content-Length: 0", "Connection: close" >>)
  ELSE IF ~ has_header(request, "Origin")
  THEN HTTPResponse(<< "HTTP/1.1", "403", "Forbidden" >>,
                    << "Content-Length: 0", "Connection: close" >>)
  ELSE HTTPResponse(<< "HTTP/1.1", "101", "Switching Protocols" >>,
                    << "Connection: Upgrade", "Upgrade: websocket", "Sec-WebSocket-Accept" >>)

\* every response is taken for a 101
status_code_101(response) == "101"

\* response.status_code(): the second token of the status line
status_code(response) == response.first_line[2]

\* response.str(): the serialized response, two tokens long: the status
\* code of the status line, then the header block
str(response) == << response.first_line[2], response.headers[Len(response.headers)] >>

\* the requests a peer sends in the server runs
GetLine == << "G", "E", "T", " ", "/", " ", "HTTP/1.1" >>

PostLine == << "P", "O", "S", "T", " ", "/", " ", "HTTP/1.1" >>

UpgradeHeaders ==
  [h \in {"Connection", "Upgrade", "Sec-WebSocket-Key"} |->
     IF h = "Connection" THEN << "Upgrade" >>
     ELSE IF h = "Upgrade" THEN << "websocket" >> ELSE << "key" >>]

WithOrigin(headers) ==
  [h \in DOMAIN headers \cup {"Origin"} |->
     IF h = "Origin" THEN << "origin" >> ELSE headers[h]]

PeerRequests ==
  { HTTPRequest(GetLine, WithOrigin(UpgradeHeaders)),
    HTTPRequest(GetLine, UpgradeHeaders),
    HTTPRequest(PostLine, WithOrigin(UpgradeHeaders)) }

\* ------------------------------------------------------------ Connection
\* a Connection after its constructor: state NotConnected, empty parsers and
\* an empty send_buffer
Connection ==
  [state |-> NotConnected, send_buffer |-> << >>, ws_message_parser |-> << >>]

\* Connection::data_to_send() on the plain transport: send_buffer not empty
data_to_send(conn) == conn.send_buffer # << >>

RECURSIVE buffer_bytes(_)
\* Connection::buffer_bytes(): the sum of the sizes of the buffers
buffer_bytes(send_buffer) ==
  IF send_buffer = << >> THEN 0
  ELSE Len(Head(send_buffer)) + buffer_bytes(Tail(send_buffer))

RECURSIVE write_keeps_prefix(_, _)
\* write() that forgets to erase the accepted prefix of a buffer
write_keeps_prefix(w, accepts) ==
  IF w.send_buffer = << >> \/ accepts = << >> THEN w
  ELSE LET buffer == Head(w.send_buffer)
           it == Min(Head(accepts), Len(buffer))
           wire == w.wire \o SubSeq(buffer, 1, it)
       IN  IF it # Len(buffer)
           THEN [send_buffer |-> w.send_buffer, wire |-> wire]
           ELSE write_keeps_prefix([send_buffer |-> Tail(w.send_buffer), wire |-> wire],
                                   Tail(accepts))

RECURSIVE write(_, _)
\* WSServer<TCPSocket>::Connection::write().  w = [send_buffer, wire]: the
\* queue and the bytes the transport has accepted in this call; accepts[i] is
\* the number of bytes socket.write() takes of the i-th buffer it is offered.
write(w, accepts) ==
  IF w.send_buffer = << >> \/ accepts = << >> THEN w
  ELSE LET buffer == Head(w.send_buffer)
           it == Min(Head(accepts), Len(buffer))
           wire == w.wire \o SubSeq(buffer, 1, it)
       IN  IF it # Len(buffer)
           THEN [send_buffer |-> << SubSeq(buffer, it + 1, Len(buffer)) >>
                                   \o Tail(w.send_buffer),
                 wire |-> wire]
           ELSE write([send_buffer |-> Tail(w.send_buffer), wire |-> wire],
                      Tail(accepts))

\* what the transport may answer to one write() call on send_buffer: it takes
\* the first k buffers whole and n bytes, not all, of the next one
AcceptsAll(send_buffer) == [i \in 1 .. Len(send_buffer) |-> Len(send_buffer[i])]

Accepts(send_buffer) ==
  UNION { { [i \in 1 .. k |-> Len(send_buffer[i])] \o << n >> :
              n \in 0 .. (Len(send_buffer[k + 1]) - 1) } :
          k \in 0 .. (Len(send_buffer) - 1) }
  \cup { AcceptsAll(send_buffer) }

\* ---------------------------------------------------------------- WSServer
\* The handlers work on s = [connections_, closed_connections_, upcalls,
\* core_close, wire, result]: wire are the bytes the transport accepted
\* during the handler, result is what the handler returns.
Upcall(cb, id, type) == << cb, id, type >>

SetConn(s, id, conn) ==
  [s EXCEPT !.connections_ = [s.connections_ EXCEPT ![id] = conn]]

\* a callback that never cancels its actions
Return_Continue(s, result) == [s EXCEPT !.result = Continue]

Return(s, result) == [s EXCEPT !.result = result]

\* WSServer::queue_frame: the return value
queue_frame_result(s, connection_id) ==
  s.connections_[connection_id].state = Connected

\* queue_frame without the test of the state
queue_frame_any_state(s, connection_id, frame) ==
  LET conn == s.connections_[connection_id]
  IN  SetConn(s, connection_id,
              [conn EXCEPT !.send_buffer = Append(@, to_string(frame))])

\* WSServer::queue_frame: the effect
queue_frame(s, connection_id, frame) ==
  LET conn == s.connections_[connection_id]
  IN  IF conn.state # Connected THEN s
      ELSE SetConn(s, connection_id,
                   [conn EXCEPT !.send_buffer = Append(@, to_string(frame))])

\* queue_frame called by the server core with a Close frame; core_close
\* records the identifier when the frame is appended
queue_close(s, connection_id, close_frame) ==
  IF queue_frame_result(s, connection_id)
  THEN [queue_frame(s, connection_id, close_frame) EXCEPT
          !.core_close = Append(@, connection_id)]
  ELSE s

\* WSServer<TCPSocket>::clear_buffer
clear_buffer(s, connection_id) ==
  LET conn == s.connections_[connection_id]
  IN  SetConn(s, connection_id, [conn EXCEPT !.send_buffer = << >>])

\* close_connection that leaves the connection Connected
close_connection_stays_connected(s, connection_id) ==
  LET conn == s.connections_[connection_id]
  IN  IF conn.state # Connected THEN s
      ELSE queue_close(s, connection_id, WSFrame(TRUE, "Close", ""))

\* close_connection without the test of the state
close_connection_any_state(s, connection_id) ==
  LET conn == s.connections_[connection_id]
      queued == queue_close(s, connection_id, WSFrame(TRUE, "Close", ""))
  IN  SetConn(queued, connection_id,
              [queued.connections_[connection_id] EXCEPT !.state = Closing])

\* WSServer::close_connection
close_connection(s, connection_id) ==
  LET conn == s.connections_[connection_id]
  IN  IF conn.state # Connected THEN s
      ELSE LET close_frame == WSFrame(TRUE, "Close", "")
               queued == queue_close(s, connection_id, close_frame)
           IN  SetConn(queued, connection_id,
                       [queued.connections_[connection_id] EXCEPT !.state = Closing])

\* WSServer::drop_connection
drop_connection(s, connection_id) ==
  IF connection_id \notin DOMAIN s.connections_ THEN s
  ELSE LET conn == s.connections_[connection_id]
           closed == SetConn(s, connection_id, [conn EXCEPT !.state = Closed])
       IN  [closed EXCEPT
              !.upcalls = Append(@, Upcall("close", connection_id, "")),
              !.closed_connections_ = @ \cup {connection_id}]

\* print_exception("ws_server", e): the handler reports a parser failure
print_exception(s, conn_id) ==
  [s EXCEPT !.upcalls = Append(@, Upcall("print_exception", conn_id, ""))]

\* what conn.read() returns: no bytes (eof), or bytes that complete the
\* requests `requests` in the handshake parser, or bytes that complete the
\* messages `messages` in the message parser or make it throw (bad); a
\* parser that throws is taken to leave its queue as it was
Data(eof, requests, bad, messages) ==
  [eof |-> eof, requests |-> requests, bad |-> bad, messages |-> messages]

\* the read action of a connection, state NotConnected
read_NotConnected(s, conn_id, data) ==
  LET conn == s.connections_[conn_id]
  IN  IF data.requests # << >>
      THEN LET request == Head(data.requests)
               response == create_handshake_response(request)
               queued == SetConn(s, conn_id,
                           [conn EXCEPT !.send_buffer = Append(@, str(response))])
           IN  IF status_code(response) # "101"
               THEN Return(drop_connection(queued, conn_id), CancelAll)
               ELSE Return(SetConn(queued, conn_id,
                             [queued.connections_[conn_id] EXCEPT !.state = Connecting]),
                           Continue)
      ELSE Return(s, Continue)

\* a Close echo that carries no payload
close_echo_empty_payload(s, conn_id, message) ==
  LET queued == queue_close(s, conn_id, WSFrame(TRUE, "Close", ""))
  IN  SetConn(queued, conn_id,
              [queued.connections_[conn_id] EXCEPT !.state = Closed])

\* a Close echo that leaves the connection Connected
close_echo_stays_connected(s, conn_id, message) ==
  queue_close(s, conn_id, WSFrame(TRUE, "Close", message.payload))

\* the read action, state Connected, a Close message: the peer's Close is
\* echoed and the connection is Closed; the write action drains and drops
close_echo(s, conn_id, message) ==
  LET close_frame == WSFrame(TRUE, "Close", message.payload)
      queued == queue_close(s, conn_id, close_frame)
  IN  SetConn(queued, conn_id,
              [queued.connections_[conn_id] EXCEPT !.state = Closed])

\* the read action of a connection, state Connected
read_Connected(s, conn_id, data) ==
  IF data.bad
  THEN Return(close_connection(print_exception(s, conn_id), conn_id), Continue)
  ELSE LET conn == s.connections_[conn_id]
           parsed == conn.ws_message_parser \o data.messages
       IN  IF parsed # << >>
           THEN LET message == Head(parsed)
                    popped == SetConn(s, conn_id,
                                [conn EXCEPT !.ws_message_parser = Tail(parsed)])
                IN  CASE message.type \in {"Text", "Binary"} ->
                           Return([popped EXCEPT !.upcalls =
                                     Append(@, Upcall("message", conn_id, message.type))],
                                  Continue)
                      [] message.type = "Close" ->
                           Return(close_echo(popped, conn_id, message), Continue)
                      [] message.type = "Ping" ->
                           LET pong == WSFrame(TRUE, "Pong", "")
                           IN  Return(queue_frame(popped, conn_id, pong), Continue)
                      [] OTHER -> Return(popped, Continue)
           ELSE Return(s, Continue)

\* a read action that gives up the connection whatever it reads
read_Closing_drops(s, conn_id, data) ==
  Return(drop_connection(s, conn_id), CancelAll)

\* the read action of a connection, state Closing
read_Closing(s, conn_id, data) ==
  IF data.bad
  THEN Return(print_exception(s, conn_id), Continue)
  ELSE LET conn == s.connections_[conn_id]
           parsed == conn.ws_message_parser \o data.messages
       IN  IF parsed # << >>
           THEN LET message == Head(parsed)
                IN  IF message.type = "Close"
                    THEN LET cleared ==
                               SetConn(s, conn_id,
                                 [conn EXCEPT !.ws_message_parser = Tail(parsed),
                                              !.state = Closed,
                                              !.send_buffer = << >>])
                         IN  Return(drop_connection(cleared, conn_id), CancelAll)
                    ELSE Return(SetConn(s, conn_id,
                                  [conn EXCEPT !.ws_message_parser = Tail(parsed)]),
                                Continue)
           ELSE Return(s, Continue)

\* the read action of a connection (the callback of its Direction::In action)
read_action(s, conn_id, data) ==
  LET conn == s.connections_[conn_id]
  IN  IF data.eof
      THEN Return(drop_connection(s, conn_id), CancelAll)
      ELSE IF conn.state = NotConnected THEN read_NotConnected(s, conn_id, data)
      ELSE IF conn.state = Connected THEN read_Connected(s, conn_id, data)
      ELSE IF conn.state = Closing THEN read_Closing(s, conn_id, data)
      ELSE Return(s, Continue)

\* the activation predicate of the read action
read_interested(conn) == conn.state # Connecting /\ conn.state # Closed

\* the test of the write action turned into "not yet Connected"
sending_handshake_not_connected(conn) == conn.state # Connected

\* the handshake completes without the open upcall
handshake_sent_silently(s, conn_id) ==
  SetConn(s, conn_id, [s.connections_[conn_id] EXCEPT !.state = Connected])

\* the write action: the test that the handshake response is being sent
sending_handshake(conn) == conn.state = Connecting

\* the write action: the whole handshake response has been sent
handshake_sent(s, conn_id) ==
  [SetConn(s, conn_id, [s.connections_[conn_id] EXCEPT !.state = Connected])
     EXCEPT !.upcalls = Append(@, Upcall("open", conn_id, ""))]

\* a write action that does not wait for the handshake response to be sent
write_action_opens_early(s, conn_id, accepts) ==
  LET conn == s.connections_[conn_id]
      w == write([send_buffer |-> conn.send_buffer, wire |-> << >>], accepts)
      written == [SetConn(s, conn_id, [conn EXCEPT !.send_buffer = w.send_buffer])
                    EXCEPT !.wire = w.wire]
      after ==
        IF sending_handshake(conn)
        THEN handshake_sent(IF data_to_send(conn) THEN written ELSE s, conn_id)
        ELSE IF conn.state \in {Connected, Closing, Closed} /\ data_to_send(conn)
        THEN written
        ELSE s
  IN  IF after.connections_[conn_id].state = Closed
         /\ ~ data_to_send(after.connections_[conn_id])
      THEN Return(drop_connection(after, conn_id), CancelAll)
      ELSE Return(after, Continue)

\* the write action of a connection (the callback of its Direction::Out
\* action); accepts is the transport's answer to the write() call, if any
write_action(s, conn_id, accepts) ==
  LET conn == s.connections_[conn_id]
      w == write([send_buffer |-> conn.send_buffer, wire |-> << >>], accepts)
      written == [SetConn(s, conn_id, [conn EXCEPT !.send_buffer = w.send_buffer])
                    EXCEPT !.wire = w.wire]
      after ==
        IF sending_handshake(conn)
        THEN LET sent == IF data_to_send(conn) THEN written ELSE s
             IN  IF ~ data_to_send(sent.connections_[conn_id])
                 THEN handshake_sent(sent, conn_id)
                 ELSE sent
        ELSE IF conn.state \in {Connected, Closing, Closed} /\ data_to_send(conn)
        THEN written
        ELSE s
  IN  IF after.connections_[conn_id].state = Closed
         /\ ~ data_to_send(after.connections_[conn_id])
      THEN Return(drop_connection(after, conn_id), CancelAll)
      ELSE Return(after, Continue)

\* the activation predicate of the write action
write_interested(conn) ==
  conn.state = Connecting
  \/ (conn.state \in {Connected, Closing, Closed} /\ data_to_send(conn))

\* ------------------------------------------------------------------ state
VARIABLES
  connections_,          \* the connection table: identifier -> Connection
  closed_connections_,   \* identifiers to erase at the next garbage collection
  last_connection_id_,   \* the next identifier
  active_,               \* the listener flag
  listener_action,       \* poller_: the listener's action is registered
  actions_,              \* poller_: the connections whose two actions are registered
  phase,                 \* "idle" between loop_once calls, "dispatch" inside poll()
  ready,                 \* poll(): the ready connection actions not yet invoked
  ready_listener,        \* poll(): the listener action is ready and not yet invoked
  fds_to_remove,         \* poll(): the connections whose callback returned CancelAll
  listener_cancel,       \* poll(): the listener callback returned CancelAll
  upcalls,               \* the callbacks and reports made by the last step
  app,                   \* the application got control in a callback of this pass
  history,               \* per identifier: what has happened to it so far
  emitted,               \* the identifiers assigned so far, in accept order
  io                     \* a transport under test: bytes queued and bytes accepted

vars ==
  << connections_, closed_connections_, last_connection_id_, active_,
     listener_action, actions_, phase, ready, ready_listener, fds_to_remove,
     listener_cancel, upcalls, app, history, emitted, io >>

server == << connections_, closed_connections_, last_connection_id_, active_ >>

poller == << listener_action, actions_, phase, ready, ready_listener,
             fds_to_remove, listener_cancel >>

\* the handlers' view of the server
Server ==
  [connections_ |-> connections_, closed_connections_ |-> closed_connections_,
   upcalls |-> << >>, core_close |-> << >>, wire |-> << >>, result |-> Continue]

\* an application callback is among the upcalls
Callbacks(ups) ==
  \E i \in 1 .. Len(ups) : ups[i][1] \in {"open", "message", "close"}

\* number of upcalls cb(id, ...) in a sequence of upcalls
RECURSIVE Count(_, _, _)
Count(ups, cb, id) ==
  IF ups = << >> THEN 0
  ELSE (IF Head(ups)[1] = cb /\ Head(ups)[2] = id THEN 1 ELSE 0)
       + Count(Tail(ups), cb, id)

\* the history of an identifier: close_callback calls, open_callback calls,
\* Close frames appended by the server core, a Close message was dequeued
NoHistory ==
  [close_calls |-> 0, open_calls |-> 0, core_close |-> 0, close_dequeued |-> FALSE]

Record(s, dequeued) ==
  [id \in ConnIds |->
     [close_calls |-> history[id].close_calls + Count(s.upcalls, "close", id),
      open_calls |-> history[id].open_calls + Count(s.upcalls, "open", id),
      core_close |-> history[id].core_close
                       + Cardinality({i \in 1 .. Len(s.core_close) : s.core_close[i] = id}),
      close_dequeued |-> history[id].close_dequeued \/ id \in dequeued]]

\* the server after a handler: its state, its upcalls and the histories
Commit(s, dequeued) ==
  /\ connections_' = s.connections_
  /\ closed_connections_' = s.closed_connections_
  /\ upcalls' = s.upcalls
  /\ history' = Record(s, dequeued)

\* no transport is under test in the server runs
NoIo == [queued |-> << >>, wire |-> << >>]

\* WSServer::WSServer and init_listener_socket: an empty table, the listener
\* active and its action registered
Init ==
  /\ connections_ = << >>
  /\ closed_connections_ = {}
  /\ last_connection_id_ = 0
  /\ active_ = TRUE
  /\ listener_action = TRUE
  /\ actions_ = {}
  /\ phase = "idle"
  /\ ready = {}
  /\ ready_listener = FALSE
  /\ fds_to_remove = {}
  /\ listener_cancel = FALSE
  /\ upcalls = << >>
  /\ app = FALSE
  /\ history = [id \in ConnIds |-> NoHistory]
  /\ emitted = << >>
  /\ io = NoIo

\* ------------------------------------------------------------ the poller
\* the connection actions whose predicate holds
Interested ==
  { << id, In >> : id \in { i \in actions_ \cap DOMAIN connections_ :
                              read_interested(connections_[i]) } }
  \cup
  { << id, Out >> : id \in { i \in actions_ \cap DOMAIN connections_ :
                               write_interested(connections_[i]) } }

\* Poller::poll, first half: the predicates are evaluated, the wait returns
\* with some of the interested actions ready (a client is waiting at the
\* listener only while fewer than MaxAccepts have been accepted)
Poll ==
  /\ phase = "idle"
  /\ \E r \in SUBSET Interested,
        l \in { b \in BOOLEAN : b => (listener_action
                                        /\ last_connection_id_ < MaxAccepts) } :
        /\ r # {} \/ l
        /\ ready' = r
        /\ ready_listener' = l
  /\ phase' = "dispatch"
  /\ fds_to_remove' = {}
  /\ listener_cancel' = FALSE
  /\ upcalls' = << >>
  /\ app' = FALSE
  /\ UNCHANGED << server, listener_action, actions_, history, emitted, io >>

\* the cap test with > for >=
accept_result_above_cap(connections) ==
  IF Cardinality(DOMAIN connections) > MAX_CONNECTION_NUM THEN CancelAll ELSE Continue

\* the callback of the listener's action (init_listener_socket): accept a
\* client, give it the next identifier, register its two actions, and close
\* the listener at the population cap
accept_result(connections) ==
  IF Cardinality(DOMAIN connections) >= MAX_CONNECTION_NUM THEN CancelAll ELSE Continue

\* the counter is not incremented
next_connection_id_same(last_connection_id) == last_connection_id

\* last_connection_id_++: the counter after an accept
next_connection_id(last_connection_id) == last_connection_id + 1

Accept ==
  /\ phase = "dispatch"
  /\ ready_listener
  /\ LET conn_id == last_connection_id_
         connections == connections_ @@ (conn_id :> Connection)
         result == accept_result(connections)
     IN  /\ last_connection_id_' = next_connection_id(last_connection_id_)
         /\ connections_' = connections
         /\ actions_' = actions_ \cup {conn_id}
         /\ emitted' = Append(emitted, conn_id)
         /\ active_' = IF result = CancelAll THEN FALSE ELSE active_
         /\ listener_cancel' = (result = CancelAll)
  /\ ready_listener' = FALSE
  /\ upcalls' = << >>
  /\ app' = app
  /\ UNCHANGED << closed_connections_, listener_action, phase, ready,
                  fds_to_remove, history, io >>

\* what a read of connection conn may return
RECURSIVE Pings(_)
Pings(messages) ==
  IF messages = << >> THEN 0
  ELSE (IF Head(messages).type = "Ping" THEN 1 ELSE 0) + Pings(Tail(messages))

RECURSIVE Queued(_)
Queued(ids) ==
  IF ids = {} THEN 0
  ELSE LET id == CHOOSE i \in ids : TRUE
       IN  Len(connections_[id].ws_message_parser) + Queued(ids \ {id})

\* the bytes of a client before the handshake is over: part of a request or
\* the end of one
HandshakeChunks ==
  { Data(FALSE, << >>, FALSE, << >>) }
  \cup { Data(FALSE, << r >>, FALSE, << >>) : r \in PeerRequests }

\* the bytes of a client that sends its handshake and then only a Close
ClosingChunks(conn) ==
  IF conn.state = NotConnected
  THEN HandshakeChunks
  ELSE { Data(FALSE, << >>, FALSE, << WSMessage("Close", "p") >>) }

\* the bytes of a client that sends its handshake and then messages
Chunks(conn) ==
  LET room == MaxParserQueue - Queued(DOMAIN connections_)
      some == UNION { [1 .. n -> PeerMessages] : n \in 0 .. room }
  IN  IF conn.state = NotConnected
      THEN HandshakeChunks
      ELSE { Data(FALSE, << >>, TRUE, << >>) }
           \cup { Data(FALSE, << >>, FALSE, m) :
                    m \in { x \in some :
                              Pings(x) = 0
                              \/ Pings(conn.ws_message_parser \o x)
                                   + Len(conn.send_buffer) <= MaxSendBuffer } }

\* the Close message, if any, that the read action dequeues
Dequeued(conn, conn_id, data) ==
  IF /\ conn.state \in {Connected, Closing}
     /\ ~ data.eof
     /\ ~ data.bad
     /\ conn.ws_message_parser \o data.messages # << >>
     /\ Head(conn.ws_message_parser \o data.messages).type = "Close"
  THEN {conn_id} ELSE {}

\* Poller::poll invokes the ready read action of connection conn_id, whose
\* read() returns data
ReadData(conn_id, data) ==
  /\ phase = "dispatch"
  /\ << conn_id, In >> \in ready
  /\ \E s \in { read_action(Server, conn_id, data) } :
       /\ Commit(s, Dequeued(connections_[conn_id], conn_id, data))
       /\ fds_to_remove' = IF s.result = CancelAll
                           THEN fds_to_remove \cup {conn_id} ELSE fds_to_remove
       /\ app' = (app \/ Callbacks(s.upcalls))
  /\ ready' = ready \ { << conn_id, In >> }
  /\ UNCHANGED << last_connection_id_, active_, listener_action, actions_, phase,
                  ready_listener, listener_cancel, emitted, io >>

\* read() returns one of chunks or, at the peer's end of file, nothing
Read(conn_id, chunks) ==
  \E data \in chunks \cup { Data(TRUE, << >>, FALSE, << >>) } : ReadData(conn_id, data)

ReadAction(conn_id) ==
  conn_id \in DOMAIN connections_ /\ Read(conn_id, Chunks(connections_[conn_id]))

\* Poller::poll invokes the ready write action of connection conn_id, whose
\* write() call, if any, is answered by accepts
WriteData(conn_id, accepts) ==
  /\ phase = "dispatch"
  /\ << conn_id, Out >> \in ready
  /\ \E s \in { write_action(Server, conn_id, accepts) } :
       /\ Commit(s, {})
       /\ fds_to_remove' = IF s.result = CancelAll
                           THEN fds_to_remove \cup {conn_id} ELSE fds_to_remove
       /\ app' = (app \/ Callbacks(s.upcalls))
  /\ ready' = ready \ { << conn_id, Out >> }
  /\ UNCHANGED << last_connection_id_, active_, listener_action, actions_, phase,
                  ready_listener, listener_cancel, emitted, io >>

Write(conn_id, answers) == \E accepts \in answers : WriteData(conn_id, accepts)

WriteAction(conn_id) ==
  conn_id \in DOMAIN connections_
  /\ Write(conn_id, Accepts(connections_[conn_id].send_buffer))

\* the listener is initialised again at the cap too
listener_reinit_at_cap(active, connections) ==
  ~ active /\ Cardinality(DOMAIN connections) <= MAX_CONNECTION_NUM

\* loop_once: the test that the listener is initialised again
listener_reinit(active, connections) ==
  ~ active /\ Cardinality(DOMAIN connections) < MAX_CONNECTION_NUM

\* Poller::poll, second half, and the rest of WSServer::loop_once: the
\* cancelled actions are removed, the closed connections are erased, the
\* listener is initialised again below the cap
GarbageCollect ==
  /\ phase = "dispatch"
  /\ ready = {}
  /\ ~ ready_listener
  /\ LET connections == [id \in DOMAIN connections_ \ closed_connections_ |->
                           connections_[id]]
         init == listener_reinit(active_, connections)
     IN  /\ connections_' = connections
         /\ closed_connections_' = {}
         /\ active_' = (active_ \/ init)
         /\ listener_action' = ((listener_action /\ ~ listener_cancel) \/ init)
  /\ actions_' = actions_ \ fds_to_remove
  /\ fds_to_remove' = {}
  /\ listener_cancel' = FALSE
  /\ phase' = "idle"
  /\ upcalls' = << >>
  /\ app' = FALSE
  /\ UNCHANGED << last_connection_id_, ready, ready_listener, history, emitted, io >>

\* ------------------------------------------------------- the application
\* the application calls the server between two loop_once calls or from a
\* callback of the current dispatch pass
AppTurn == phase = "idle" \/ app

AppCall(s) ==
  /\ connections_' = s.connections_
  /\ history' = Record(s, {})
  /\ upcalls' = << >>
  /\ UNCHANGED << closed_connections_, last_connection_id_, active_, poller, app,
                  emitted, io >>

QueueFrame(id) ==
  /\ AppTurn
  /\ id \in DOMAIN connections_
  /\ Len(connections_[id].send_buffer) < MaxSendBuffer
  /\ \E frame \in AppFrames : AppCall(queue_frame(Server, id, frame))

CloseConnection(id) ==
  /\ AppTurn
  /\ id \in DOMAIN connections_
  /\ AppCall(close_connection(Server, id))

ClearBuffer(id) ==
  /\ AppTurn
  /\ id \in DOMAIN connections_
  /\ AppCall(clear_buffer(Server, id))

Next ==
  \/ Poll
  \/ Accept
  \/ \E id \in ConnIds : ReadAction(id)
  \/ \E id \in ConnIds : WriteAction(id)
  \/ GarbageCollect
  \/ \E id \in ConnIds : QueueFrame(id)
  \/ \E id \in ConnIds : CloseConnection(id)
  \/ \E id \in ConnIds : ClearBuffer(id)

Spec == Init /\ [][Next]_vars

\* The restrictions of Spec that are explored exhaustively.
\* One client: only the first connection is accepted.
AcceptFirst == emitted = << >> /\ Accept

\* no second client arrives at the listener
PollOne == Poll /\ (ready_listener' => emitted = << >>)

NextOne ==
  \/ PollOne
  \/ AcceptFirst
  \/ \E id \in ConnIds : ReadAction(id)
  \/ \E id \in ConnIds : WriteAction(id)
  \/ GarbageCollect
  \/ \E id \in ConnIds : QueueFrame(id)
  \/ \E id \in ConnIds : CloseConnection(id)
  \/ \E id \in ConnIds : ClearBuffer(id)

SpecOne == Init /\ [][NextOne]_vars

\* Several clients that connect, send their handshake and then close or hang
\* up, with an application that makes no calls.
ClosingRead(conn_id) ==
  conn_id \in DOMAIN connections_
  /\ Read(conn_id, ClosingChunks(connections_[conn_id]))

NextAdmission ==
  \/ Poll
  \/ Accept
  \/ \E id \in ConnIds : ClosingRead(id)
  \/ \E id \in ConnIds : WriteAction(id)
  \/ GarbageCollect

SpecAdmission == Init /\ [][NextAdmission]_vars

\* One client and an application that makes no calls, with a loop that keeps
\* running and a transport that keeps becoming write-ready and, offered the
\* pending bytes often enough, accepts them all.
WriteReady(conn_id) == Poll /\ << conn_id, Out >> \in ready'

\* the write action of conn_id is invoked and the transport takes all the
\* pending bytes
WriteAll(conn_id) ==
  /\ << conn_id, Out >> \in ready
  /\ << conn_id, Out >> \notin ready'
  /\ conn_id \in DOMAIN connections_'
  /\ ~ data_to_send(connections_'[conn_id])

\* strong fairness of WriteReady and of WriteAll, the latter spelled out:
\* WriteAll(id) is enabled exactly when the write action of id is ready
TransportAccepts ==
  \A id \in ConnIds :
    /\ SF_vars(WriteReady(id))
    /\ ([]<>(phase = "dispatch" /\ << id, Out >> \in ready))
         => []<><< WriteAll(id) >>_vars

NextClose ==
  \/ PollOne
  \/ AcceptFirst
  \/ \E id \in ConnIds : ReadAction(id)
  \/ \E id \in ConnIds : WriteAction(id)
  \/ GarbageCollect

\* Poller::poll invokes every ready action and returns
DispatchEnds == []<>(phase = "dispatch" => ready = {})

SpecClose ==
  Init /\ [][NextClose]_vars /\ WF_vars(GarbageCollect) /\ DispatchEnds
       /\ TransportAccepts

\* --------------------------------------------- the transport under test
\* One connection that has completed its handshake; the application queues
\* frames and Connection::write() is called, the transport accepting any
\* prefix of every buffer it is offered.
WireFrames ==
  { WSFrame(TRUE, "Text", "a"), WSFrame(TRUE, "Text", "b"), WSFrame(TRUE, "Binary", "a") }

InitWrite ==
  /\ connections_ = (0 :> [Connection EXCEPT !.state = Connected])
  /\ closed_connections_ = {}
  /\ last_connection_id_ = 1
  /\ active_ = (1 < MAX_CONNECTION_NUM)
  /\ listener_action = (1 < MAX_CONNECTION_NUM)
  /\ actions_ = {0}
  /\ phase = "idle"
  /\ ready = {}
  /\ ready_listener = FALSE
  /\ fds_to_remove = {}
  /\ listener_cancel = FALSE
  /\ upcalls = << >>
  /\ app = FALSE
  /\ history = [id \in ConnIds |->
                  IF id = 0 THEN [NoHistory EXCEPT !.open_calls = 1] ELSE NoHistory]
  /\ emitted = << 0 >>
  /\ io = NoIo

\* a successful queue_frame call
WireQueueFrame ==
  /\ Len(io.queued) < 2 * MaxFrames
  /\ queue_frame_result(Server, 0)
  /\ \E frame \in WireFrames :
       /\ connections_' = queue_frame(Server, 0, frame).connections_
       /\ io' = [io EXCEPT !.queued = @ \o to_string(frame)]
  /\ UNCHANGED << closed_connections_, last_connection_id_, active_, poller,
                  upcalls, app, history, emitted >>

\* a write() call
WireWrite ==
  /\ data_to_send(connections_[0])
  /\ \E accepts \in Accepts(connections_[0].send_buffer) :
       LET w == write([send_buffer |-> connections_[0].send_buffer, wire |-> << >>],
                      accepts)
       IN  /\ connections_' = [connections_ EXCEPT ![0].send_buffer = w.send_buffer]
           /\ io' = [io EXCEPT !.wire = @ \o w.wire]
  /\ UNCHANGED << closed_connections_, last_connection_id_, active_, poller,
                  upcalls, app, history, emitted >>

NextWrite ==
  \/ WireQueueFrame
  \/ WireWrite

SpecWrite == InitWrite /\ [][NextWrite]_vars

\* The same connection when the application may also call clear_buffer; io
\* records the buffers queue_frame has appended, whole and in order, and the
\* bytes the transport has accepted.
NoBuffers == [buffers |-> << >>, wire |-> << >>]

InitClear ==
  /\ connections_ = (0 :> [Connection EXCEPT !.state = Connected])
  /\ closed_connections_ = {}
  /\ last_connection_id_ = 1
  /\ active_ = (1 < MAX_CONNECTION_NUM)
  /\ listener_action = (1 < MAX_CONNECTION_NUM)
  /\ actions_ = {0}
  /\ phase = "idle"
  /\ ready = {}
  /\ ready_listener = FALSE
  /\ fds_to_remove = {}
  /\ listener_cancel = FALSE
  /\ upcalls = << >>
  /\ app = FALSE
  /\ history = [id \in ConnIds |->
                  IF id = 0 THEN [NoHistory EXCEPT !.open_calls = 1] ELSE NoHistory]
  /\ emitted = << 0 >>
  /\ io = NoBuffers

\* a successful queue_frame call
BufferQueueFrame ==
  /\ Len(io.buffers) < MaxFrames + 1
  /\ queue_frame_result(Server, 0)
  /\ \E frame \in WireFrames :
       /\ connections_' = queue_frame(Server, 0, frame).connections_
       /\ io' = [io EXCEPT !.buffers = Append(@, to_string(frame))]
  /\ UNCHANGED << closed_connections_, last_connection_id_, active_, poller,
                  upcalls, app, history, emitted >>

\* a write() call
BufferWrite ==
  /\ data_to_send(connections_[0])
  /\ \E accepts \in Accepts(connections_[0].send_buffer) :
       LET w == write([send_buffer |-> connections_[0].send_buffer, wire |-> << >>],
                      accepts)
       IN  /\ connections_' = [connections_ EXCEPT ![0].send_buffer = w.send_buffer]
           /\ io' = [io EXCEPT !.wire = @ \o w.wire]
  /\ UNCHANGED << closed_connections_, last_connection_id_, active_, poller,
                  upcalls, app, history, emitted >>

\* a clear_buffer call
BufferClear ==
  /\ connections_' = clear_buffer(Server, 0).connections_
  /\ UNCHANGED << closed_connections_, last_connection_id_, active_, poller,
                  upcalls, app, history, emitted, io >>

NextClear ==
  \/ BufferQueueFrame
  \/ BufferWrite
  \/ BufferClear

SpecClear == InitClear /\ [][NextClear]_vars

\* ------------------------------------------------- the calls under test
\* A table at the population cap whose connections are at any point of their
\* life; the application calls queue_frame on any of them, and the call, what
\* it returned and the table before it are recorded.
HandshakeResponse ==
  str(create_handshake_response(HTTPRequest(GetLine, WithOrigin(UpgradeHeaders))))

CallConnections ==
  { Connection,
    [Connection EXCEPT !.state = Connecting, !.send_buffer = << HandshakeResponse >>],
    [Connection EXCEPT !.state = Connected],
    [Connection EXCEPT !.state = Connected,
                       !.send_buffer = << to_string(WSFrame(TRUE, "Pong", "")) >>],
    [Connection EXCEPT !.state = Closing,
                       !.send_buffer = << to_string(WSFrame(TRUE, "Close", "")) >>],
    [Connection EXCEPT !.state = Closed,
                       !.send_buffer = << to_string(WSFrame(TRUE, "Close", "p")) >>] }

NoCall == [call |-> << >>, result |-> FALSE, before |-> << >>]

CallHistory(conn) ==
  [close_calls |-> 0,
   open_calls |-> IF conn.state \in {Connected, Closing, Closed} THEN 1 ELSE 0,
   core_close |-> IF conn.state \in {Closing, Closed} THEN 1 ELSE 0,
   close_dequeued |-> conn.state = Closed]

InitCalls ==
  /\ connections_ \in [0 .. (MAX_CONNECTION_NUM - 1) -> CallConnections]
  /\ closed_connections_ = {}
  /\ last_connection_id_ = MAX_CONNECTION_NUM
  /\ active_ = FALSE
  /\ listener_action = FALSE
  /\ actions_ = 0 .. (MAX_CONNECTION_NUM - 1)
  /\ phase = "idle"
  /\ ready = {}
  /\ ready_listener = FALSE
  /\ fds_to_remove = {}
  /\ listener_cancel = FALSE
  /\ upcalls = << >>
  /\ app = FALSE
  /\ history = [id \in ConnIds |->
                  IF id \in DOMAIN connections_
                  THEN CallHistory(connections_[id]) ELSE NoHistory]
  /\ emitted = [i \in 1 .. MAX_CONNECTION_NUM |-> i - 1]
  /\ io = NoCall

\* a queue_frame call, successful or not
CallQueueFrame(id) ==
  /\ AppTurn
  /\ id \in DOMAIN connections_
  /\ Len(connections_[id].send_buffer) < MaxSendBuffer
  /\ \E frame \in WireFrames :
       /\ connections_' = queue_frame(Server, id, frame).connections_
       /\ io' = [call |-> << "queue_frame", id, frame >>,
                 result |-> queue_frame_result(Server, id),
                 before |-> connections_]
  /\ UNCHANGED << closed_connections_, last_connection_id_, active_, poller,
                  upcalls, app, history, emitted >>

NextCalls == \E id \in ConnIds : CallQueueFrame(id)

SpecCalls == InitCalls /\ [][NextCalls]_vars

\* ----------------------------------------------- the handshake under test
\* create_handshake_response applied to the requests a handshake parser can
\* hand over: a method, a target and a protocol separated by spaces, and any
\* choice of the four headers the validator looks at.
Methods ==
  { << "G", "E", "T" >>, << "P", "O", "S", "T" >>, << "G", "E", "T", "X" >>,
    << "G", "E" >> }

Protocols == { "HTTP/1.1", "HTTP/2", "HTTP/1.0" }

HeaderValues(name) ==
  IF name = "Connection"
  THEN { << "Upgrade" >>, << "keep-alive" >>, << "keep-alive", ",", "Upgrade" >> }
  ELSE IF name = "Upgrade" THEN { << "websocket" >>, << "WebSocket" >> }
  ELSE IF name = "Sec-WebSocket-Key" THEN { << "key" >> }
  ELSE { << "origin" >> }

HeaderNames == { "Connection", "Upgrade", "Sec-WebSocket-Key", "Origin" }

HeaderBlocks ==
  UNION { { h \in [names -> UNION { HeaderValues(n) : n \in HeaderNames }] :
              \A n \in names : h[n] \in HeaderValues(n) } :
          names \in SUBSET HeaderNames }

Requests ==
  { HTTPRequest(method \o << " ", "/", " ", protocol >>, headers) :
      method \in Methods, protocol \in Protocols, headers \in HeaderBlocks }

NoResponse == HTTPResponse(<< >>, << >>)

InitHandshake ==
  /\ connections_ = << >>
  /\ closed_connections_ = {}
  /\ last_connection_id_ = 0
  /\ active_ = TRUE
  /\ listener_action = TRUE
  /\ actions_ = {}
  /\ phase = "idle"
  /\ ready = {}
  /\ ready_listener = FALSE
  /\ fds_to_remove = {}
  /\ listener_cancel = FALSE
  /\ upcalls = << >>
  /\ app = FALSE
  /\ history = [id \in ConnIds |-> NoHistory]
  /\ emitted = << >>
  /\ io \in [request : Requests, response : { NoResponse }]

Respond ==
  /\ io.response = NoResponse
  /\ io' = [io EXCEPT !.response = create_handshake_response(io.request)]
  /\ UNCHANGED << server, poller, upcalls, app, history, emitted >>

NextHandshake == Respond

SpecHandshake == InitHandshake /\ [][NextHandshake]_vars

\* ------------------------------------------------------------- properties
InTable(id) == id \in DOMAIN connections_

\* C1: close_callback(id) is invoked at most once over the lifetime of a
\* connection, however often drop_connection(id) is reached before the
\* garbage collection erases it.
C1_CloseCallbackAtMostOnce ==
  \A id \in ConnIds : history[id].close_calls <= 1

\* no open or message upcall for id follows a close upcall for id in ups
NoneAfterClose(ups, id) ==
  \A i, j \in 1 .. Len(ups) :
    (i < j /\ ups[i][1] = "close" /\ ups[i][2] = id /\ ups[j][2] = id)
      => ups[j][1] \notin {"open", "message"}

\* C2: once close_callback(id) has been invoked, neither open_callback(id)
\* nor message_callback(id, m) is invoked again, whatever the order in which
\* the read and write actions are dispatched.
C2_NoUpcallAfterClose ==
  [][\A id \in ConnIds :
       /\ history[id].close_calls > 0 =>
            (Count(upcalls', "open", id) = 0 /\ Count(upcalls', "message", id) = 0)
       /\ NoneAfterClose(upcalls', id)]_vars

C2_Witness ==
  \E id \in ConnIds :
    /\ history[id].close_calls > 0
    /\ history[id].open_calls > 0
    /\ InTable(id)
    /\ << id, Out >> \in ready

\* C3: message_callback(id, m) is invoked only for a connection whose state
\* is Connected and whose open_callback has been invoked before.
C3_MessageOnlyWhenConnected ==
  [][\A id \in ConnIds :
       Count(upcalls', "message", id) > 0 =>
         /\ InTable(id)
         /\ connections_[id].state = Connected
         /\ history[id].open_calls > 0]_vars

C3_Witness ==
  \E id \in ConnIds :
    /\ Count(upcalls, "message", id) > 0
    /\ history[id].open_calls = 1

\* the permitted changes of a connection's state
Permitted ==
  { << NotConnected, Connecting >>, << NotConnected, Closed >>,
    << Connecting, Connected >>, << Connecting, Closed >>,
    << Connected, Closing >>, << Connected, Closed >>,
    << Closing, Closed >> }

C5_TableWithinCap ==
  Cardinality(DOMAIN connections_) <= MAX_CONNECTION_NUM

C5_Witness ==
  /\ Cardinality(DOMAIN connections_) = MAX_CONNECTION_NUM
  /\ closed_connections_ # {}
  /\ ~ active_
  /\ last_connection_id_ > MAX_CONNECTION_NUM

\* C6: at the end of every loop_once the listener is active iff the table
\* holds fewer than MAX_CONNECTION_NUM entries, and the listener's action is
\* registered iff the listener is active.
C6_ListenerActiveIffBelowCap ==
  phase = "idle" =>
    /\ active_ <=> (Cardinality(DOMAIN connections_) < MAX_CONNECTION_NUM)
    /\ listener_action <=> active_

C6_Witness ==
  /\ phase = "idle"
  /\ active_
  /\ last_connection_id_ >= MAX_CONNECTION_NUM
  /\ Cardinality(DOMAIN connections_) = MAX_CONNECTION_NUM - 1

\* C7: identifiers are assigned in strictly increasing order and never
\* reused, and every identifier in the table is below the counter.
C7_IdentifiersIncrease ==
  /\ \A i, j \in 1 .. Len(emitted) : i < j => emitted[i] < emitted[j]
  /\ \A id \in DOMAIN connections_ : id < last_connection_id_

C7_Witness ==
  /\ Len(emitted) = 3
  /\ DOMAIN connections_ = { emitted[1], emitted[3] }

\* C8: after the read action has dequeued a Close message, no Text or Binary
\* message is delivered for that connection, also when complete messages are
\* still queued in the parser.
C8_NoMessageAfterClose ==
  [][\A id \in ConnIds :
       history[id].close_dequeued => Count(upcalls', "message", id) = 0]_vars

C8_Witness ==
  \E id \in ConnIds :
    /\ history[id].close_dequeued
    /\ InTable(id)
    /\ connections_[id].ws_message_parser # << >>
    /\ Head(connections_[id].ws_message_parser).type \in {"Text", "Binary"}
    /\ phase = "idle"

RECURSIVE Flatten(_)
\* the bytes of a queue of buffers, in order
Flatten(send_buffer) ==
  IF send_buffer = << >> THEN << >>
  ELSE Head(send_buffer) \o Flatten(Tail(send_buffer))

\* C9: on the plain transport the bytes accepted so far, followed by the
\* contents of send_buffer, are the queued buffers in queue_frame order:
\* write() loses, duplicates and reorders nothing.
C9_WritePreservesStream ==
  io.wire \o Flatten(connections_[0].send_buffer) = io.queued

C9_Witness ==
  /\ Len(io.queued) = 2 * MaxFrames
  /\ Len(io.wire) = 3
  /\ Len(connections_[0].send_buffer) = 2
  /\ Len(connections_[0].send_buffer[1]) = 1

\* C10: close_connection and the Close echo together append at most one
\* Close frame to a connection's send_buffer.
C10_AtMostOneCloseFrame ==
  \A id \in ConnIds : history[id].core_close <= 1

C10_Witness ==
  \E id \in ConnIds :
    /\ history[id].core_close = 1
    /\ history[id].close_dequeued
    /\ InTable(id)
    /\ connections_[id].state = Closed
    /\ connections_[id].send_buffer = << >>

\* C11: queue_frame(id, frame) on a connection of the table returns true and
\* appends the frame's wire form, one buffer, to the tail of the send_buffer
\* when the state is Connected; in every other state it returns false and
\* leaves the connection as it was; no other connection is modified.
C11_QueueFrameContract ==
  io.call # << >> =>
    LET id == io.call[2]
        frame == io.call[3]
        before == io.before
    IN  /\ DOMAIN connections_ = DOMAIN before
        /\ IF before[id].state = Connected
           THEN /\ io.result
                /\ connections_[id] =
                     [before[id] EXCEPT !.send_buffer = Append(@, to_string(frame))]
           ELSE /\ ~ io.result
                /\ connections_[id] = before[id]
        /\ \A other \in DOMAIN before \ {id} : connections_[other] = before[other]

C11_Witness ==
  /\ io.call # << >>
  /\ io.result
  /\ Len(connections_[io.call[2]].send_buffer) = Len(io.before[io.call[2]].send_buffer) + 1
  /\ \E other \in DOMAIN connections_ \ {io.call[2]} :
       connections_[other].state \in {Closing, Closed}

\* a Close message from the peer is echoed to connection id in this step
CloseEchoed(id) ==
  /\ InTable(id)
  /\ connections_[id].state = Connected
  /\ ~ history[id].close_dequeued
  /\ history'[id].close_dequeued

method_token(first_line) ==
  IF \E i \in 1 .. Len(first_line) : first_line[i] = " "
  THEN SubSeq(first_line, 1,
              (CHOOSE i \in 1 .. Len(first_line) :
                 first_line[i] = " " /\ \A j \in 1 .. (i - 1) : first_line[j] # " ") - 1)
  ELSE first_line

protocol_token(first_line) == substr_from(first_line, rfind_space(first_line) + 1)

\* the five rules of the handshake validator
FiveRules(request) ==
  /\ method_token(request.first_line) = << "G", "E", "T" >>
  /\ protocol_token(request.first_line) \in { << "HTTP/1.1" >>, << "HTTP/2" >> }
  /\ has_header(request, "Connection")
  /\ contains(get_header_value(request, "Connection"), "Upgrade")
  /\ has_header(request, "Upgrade")
  /\ get_header_value(request, "Upgrade") = << "websocket" >>
  /\ has_header(request, "Sec-WebSocket-Key")

\* C13: create_handshake_response answers 400 iff one of the five rules
\* fails, 403 iff the five rules pass and there is no Origin header, and 101
\* otherwise; a request whose method token is not exactly GET is answered
\* 400.
C13_HandshakeStatus ==
  io.response # NoResponse =>
    LET request == io.request
        status == status_code(io.response)
    IN  /\ status = "400" <=> ~ FiveRules(request)
        /\ status = "403" <=> (FiveRules(request) /\ ~ has_header(request, "Origin"))
        /\ status = "101" <=> (FiveRules(request) /\ has_header(request, "Origin"))
        /\ method_token(request.first_line) # << "G", "E", "T" >> => status = "400"

\* connection id is erased from the table in this step
Erased(id) == InTable(id) /\ id \notin DOMAIN connections_'

\* C14: a connection is erased only by the garbage collection of loop_once,
\* after it was dropped in the dispatch pass just ended and its actions were
\* cancelled; no action of an erased connection is registered or ready, so
\* none is invoked; the closed set is empty at the end of every loop_once.
C14_ErasedOnlyByGarbageCollection ==
  /\ [][\A id \in ConnIds :
          Erased(id) =>
            /\ phase = "dispatch" /\ phase' = "idle"
            /\ id \in closed_connections_
            /\ history[id].close_calls > 0
            /\ connections_[id].state = Closed
            /\ id \in fds_to_remove
            /\ id \notin actions_']_vars
  /\ [](/\ actions_ \subseteq DOMAIN connections_
        /\ \A action \in ready : action[1] \in DOMAIN connections_
        /\ closed_connections_ \subseteq DOMAIN connections_
        /\ phase = "idle" => closed_connections_ = {})

C14_Witness ==
  \E id, other \in ConnIds :
    /\ phase = "idle"
    /\ id < other
    /\ id < last_connection_id_
    /\ ~ InTable(id)
    /\ history[id].close_calls > 0
    /\ InTable(other)
    /\ connections_[other].state = Connected

\* the read action of connection id is invoked in this step
ReadInvoked(id) == << id, In >> \in ready /\ << id, In >> \notin ready'

\* C15: a read in state Connected dispatches every completed message in the
\* same invocation, up to and including the first Close message: when the
\* read action returns with the connection still Connected, no completed
\* message is left in the parser for a later readiness event.
C15_ReadDispatchesEveryMessage ==
  [][\A id \in ConnIds :
       (/\ ReadInvoked(id)
        /\ connections_[id].state = Connected
        /\ connections_'[id].state = Connected)
         => connections_'[id].ws_message_parser = << >>]_vars

\* the write action of connection id is invoked in this step
WriteInvoked(id) == << id, Out >> \in ready /\ << id, Out >> \notin ready'

\* open_callback(id) is invoked in this step
OpenCalled(id) == Count(upcalls', "open", id) > 0

\* the ends of the serialized 101 response that can still be pending
PendingResponses ==
  { SubSeq(HandshakeResponse, i, Len(HandshakeResponse)) :
      i \in 1 .. Len(HandshakeResponse) }

\* open_callback(id) is invoked exactly when id moves from Connecting to
\* Connected, in a write action after which data_to_send() is false, and at
\* most once per identifier
OpenOnConnected(id) ==
  /\ OpenCalled(id) <=>
       (/\ InTable(id) /\ id \in DOMAIN connections_'
        /\ connections_[id].state = Connecting
        /\ connections_'[id].state = Connected)
  /\ OpenCalled(id) =>
       (WriteInvoked(id) /\ ~ data_to_send(connections_'[id]))
  /\ history'[id].open_calls <= 1

\* a write() that accepts only a prefix of the response leaves the connection
\* Connecting, without open_callback and with its write action armed
PrefixKeepsConnecting(id) ==
  (InTable(id) /\ connections_[id].state = Connecting) =>
    \A accepts \in Accepts(connections_[id].send_buffer)
                    \ { AcceptsAll(connections_[id].send_buffer) } :
      WriteData(id, accepts) =>
        /\ connections_'[id].state = Connecting
        /\ ~ OpenCalled(id)
        /\ write_interested(connections_'[id])
        /\ id \notin fds_to_remove'
        /\ connections_'[id].send_buffer # connections_[id].send_buffer
             => Flatten(connections_'[id].send_buffer) \in PendingResponses

\* the write action that calls open_callback(id) has sent the end of the 101
\* response that was still pending
ResponseAccepted(id) ==
  OpenCalled(id) =>
    /\ data_to_send(connections_[id])
    /\ Flatten(connections_[id].send_buffer) \in PendingResponses

RejectedRequests ==
  { request \in PeerRequests :
      ~ is_valid_handshake_request(request) \/ ~ has_header(request, "Origin") }

\* connection id was dropped before its handshake completed
DroppedUnopened(id) ==
  /\ InTable(id)
  /\ connections_[id].state = Closed
  /\ history[id].open_calls = 0

\* C17: a handshake request answered by a response other than 101 has the
\* serialized response appended to the send_buffer and the connection
\* dropped in the same read action (Closed without passing Connecting,
\* close_callback, closed set, CancelAll); the write action is not invoked
\* for it afterwards, so no byte of the response is written, and the next
\* garbage collection erases it.
C17_RejectedNeverWritten ==
  /\ [][\A id \in ConnIds :
          /\ \A request \in RejectedRequests :
               (/\ InTable(id)
                /\ connections_[id].state = NotConnected
                /\ ReadData(id, Data(FALSE, << request >>, FALSE, << >>)))
                 => /\ connections_'[id].send_buffer =
                         Append(connections_[id].send_buffer,
                                str(create_handshake_response(request)))
                    /\ connections_'[id].state = Closed
                    /\ upcalls' = << Upcall("close", id, "") >>
                    /\ id \in closed_connections_'
                    /\ id \in fds_to_remove'
          /\ DroppedUnopened(id) => ~ WriteInvoked(id)
          /\ (DroppedUnopened(id) /\ id \in DOMAIN connections_')
               => /\ connections_'[id].state = Closed
                  /\ connections_'[id].send_buffer
                       \in { connections_[id].send_buffer, << >> }]_vars
  /\ [](\A id \in ConnIds :
          DroppedUnopened(id) =>
            (phase = "dispatch" /\ id \in closed_connections_
             /\ << id, Out >> \notin ready))

C17_Witness ==
  \E id \in ConnIds, request \in RejectedRequests :
    /\ DroppedUnopened(id)
    /\ connections_[id].send_buffer = << str(create_handshake_response(request)) >>
    /\ upcalls = << Upcall("close", id, "") >>
    /\ id \in closed_connections_
    /\ id \in fds_to_remove

\* read() returns bytes on which the message parser throws
Garbage == Data(FALSE, << >>, TRUE, << >>)

\* C18: a message-parser failure never drops the connection and never ends
\* the loop: in state Connected the read action appends one Close frame with
\* empty payload, sets Closing, invokes no callback and returns Continue; in
\* state Closing it changes neither the state nor the send_buffer and
\* returns Continue.
C18_ParserFailureClosesGracefully ==
  [][\A id \in ConnIds :
       (InTable(id) /\ ReadData(id, Garbage)) =>
         /\ connections_[id].state = Connected =>
              /\ connections_'[id].state = Closing
              /\ connections_'[id].send_buffer =
                   Append(connections_[id].send_buffer,
                          to_string(WSFrame(TRUE, "Close", "")))
         /\ connections_[id].state = Closing =>
              /\ connections_'[id].state = Closing
              /\ connections_'[id].send_buffer = connections_[id].send_buffer
         /\ ~ Callbacks(upcalls')
         /\ closed_connections_' = closed_connections_
         /\ fds_to_remove' = fds_to_remove
         /\ phase' = "dispatch"]_vars

C18_Witness ==
  \E id \in ConnIds :
    /\ upcalls = << Upcall("print_exception", id, "") >>
    /\ connections_[id].state = Closing
    /\ history[id].core_close = 1
    /\ Len(connections_[id].send_buffer) = 2
    /\ connections_[id].send_buffer[2] = to_string(WSFrame(TRUE, "Close", ""))
    /\ connections_[id].ws_message_parser # << >>

\* the connection has answered the peer's Close and waits to write the echo
\* before it is dropped
AwaitsDrop(id) ==
  /\ InTable(id)
  /\ connections_[id].state = Closed
  /\ history[id].close_calls = 0

\* C19: at every iteration boundary a Closed connection that is still in the
\* table has data to send, so that its write action is armed and it can
\* still be dropped, whatever the application has called.
C19_ClosedHasDataToSend ==
  phase = "idle" =>
    \A id \in ConnIds :
      AwaitsDrop(id) => /\ data_to_send(connections_[id])
                        /\ write_interested(connections_[id])

\* stream starts with the bytes of buffer
StartsWith(stream, buffer) ==
  /\ Len(buffer) <= Len(stream)
  /\ SubSeq(stream, 1, Len(buffer)) = buffer

RECURSIVE Framed(_, _, _)
\* stream is some of the buffers, whole and in their order, followed by
\* nothing or by the part already written of the buffer whose rest is head
\* (head = << >> when the send_buffer is empty)
Framed(stream, buffers, head) ==
  \/ stream = << >>
  \/ /\ head # << >>
     /\ \E i \in 1 .. Len(buffers) : stream \o head = buffers[i]
  \/ \E i \in 1 .. Len(buffers) :
       /\ StartsWith(stream, buffers[i])
       /\ Framed(SubSeq(stream, Len(buffers[i]) + 1, Len(stream)),
                 SubSeq(buffers, i + 1, Len(buffers)), head)

\* C20: on the plain transport the bytes accepted for a connection are
\* always whole queued buffers followed by at most a proper prefix of the
\* buffer at the head of the send_buffer: no later buffer follows a buffer
\* written only in part, whatever the interleaving of queue_frame, partial
\* write() and clear_buffer.
C20_WholeBuffersOnTheWire ==
  LET send_buffer == connections_[0].send_buffer
  IN  Framed(io.wire, io.buffers,
             IF send_buffer = << >> THEN << >> ELSE Head(send_buffer))

====
